---------------------------- MODULE Spec2Model ----------------------------
(***************************************************************************)
(* Model of the Grand Central I/O controller of DingusPPC                  *)
(* (devices/ioctrl/grandcentral.cpp) and of the PCI configuration space    *)
(* byte-lane helpers pci_conv_rd_data / pci_conv_wr_data (pcihost.h).      *)
(*                                                                         *)
(* A 32-bit machine word is the set of the positions of its 1 bits, a      *)
(* subset of 0..31 (TLC's integers are 32-bit signed, so 0xFFFFFFFF is no  *)
(* TLC integer).  The C operators &, |, ~, <<, >> and + are the operators  *)
(* AND, OR, NOT, SHL, SHR and ADD below, all truncating to 32 bits.        *)
(***************************************************************************)
EXTENDS Integers, Sequences, FiniteSets, TLC

VARIABLES
    int_mask,       \* GrandCentral::int_mask
    int_levels,     \* GrandCentral::int_levels
    int_events,     \* GrandCentral::int_events
    nvram_addr_hi,  \* GrandCentral::nvram_addr_hi
    base_addr,      \* GrandCentral::base_addr
    bars,           \* PCIDevice::bars[0] and bars[1]
    mmio_regions,   \* regions handed to host_instance->pci_register_mmio_region
    aborted,        \* TRUE once ABORT_F has ended the process
    last,           \* the last controller operation: its inputs, calls and result
    conv,           \* the last byte-lane conversion: its inputs and result
    probe,          \* history: the first bus access made and where it was routed
    race            \* an ack_int and a register write running on two threads

vars == <<int_mask, int_levels, int_events, nvram_addr_hi, base_addr, bars,
          mmio_regions, aborted, last, conv, probe, race>>

gc_vars == <<int_mask, int_levels, int_events, nvram_addr_hi, base_addr, bars,
             mmio_regions, aborted, last, probe, race>>

-----------------------------------------------------------------------------
(* Bounds of the model *)

\* conversions are tried on the words Val(0) .. Val(MaxVal)
MaxVal == 4
\* AccessDetails::size ranges over 0 .. MaxSize
MaxSize == 5
\* AccessDetails::offset ranges over 0 .. MaxOffset
MaxOffset == 7
\* at most MaxRegions MMIO regions are registered
MaxRegions == 3

-----------------------------------------------------------------------------
(* 32-bit words *)

Bit32 == 0..31

\* the word of a natural number below 2^31
U32(n) == {i \in 0..30 : (n \div (2^i)) % 2 = 1}

\* the word with the four bytes b3 (bits 31..24), b2, b1, b0 (bits 7..0)
Word(b3, b2, b1, b0) ==
    {i \in Bit32 : (<<b0, b1, b2, b3>>[(i \div 8) + 1] \div (2^(i % 8))) % 2 = 1}

\* the number of a word that fits in 31 bits
RECURSIVE Num(_)
Num(w) == IF w = {} THEN 0
          ELSE LET i == CHOOSE j \in w : TRUE IN 2^i + Num(w \ {i})

\* byte i (0 = least significant) of a word, as a number: (w >> 8*i) & 0xFF
ByteAt(w, i) == Num({b - 8*i : b \in {x \in w : x \div 8 = i}})

AND(a, b) == a \cap b
OR(a, b)  == a \cup b
NOT(a)    == Bit32 \ a
SHL(a, n) == {i + n : i \in a} \cap Bit32
SHR(a, n) == {i - n : i \in a} \cap Bit32

\* a + b modulo 2^32, by ripple carry from bit i
RECURSIVE AddFrom(_, _, _, _)
AddFrom(a, b, i, carry) ==
    IF i > 31 THEN {}
    ELSE LET n == (IF i \in a THEN 1 ELSE 0) + (IF i \in b THEN 1 ELSE 0) + carry
         IN  (IF n % 2 = 1 THEN {i} ELSE {}) \cup AddFrom(a, b, i + 1, n \div 2)

ADD(a, b) == AddFrom(a, b, 0, 0)

\* __builtin_bswap16: the argument is converted to uint16_t, the result is 16 bits
BYTESWAP_16(x) == {i + 8 : i \in x \cap (0..7)} \cup {i - 8 : i \in x \cap (8..15)}

\* __builtin_bswap32
BYTESWAP_32(x) == {(i % 8) + 8 * (3 - (i \div 8)) : i \in x}

ROTL_32(x, n) == OR(SHL(x, n), SHR(x, 32 - n))
ROTR_32(x, n) == OR(SHR(x, n), SHL(x, 32 - n))

ALL_ONES == Bit32     \* 0xFFFFFFFFUL

\* the constants of the code, as words
H_0 == U32(0)
H_F == U32(15)
H_1F == U32(31)
H_80 == U32(128)
H_FF == U32(255)
H_100 == U32(256)
H_8000 == U32(32768)
H_FF00 == U32(65280)
H_FFFF == U32(65535)
H_10000 == U32(65536)
H_20000 == U32(131072)
H_FF0000 == U32(16711680)
H_FFFF00 == U32(16776960)
H_00FFFFFF == U32(16777215)

-----------------------------------------------------------------------------
(* PCI configuration space byte-lane helpers *)

\* details.size << 2 | details.offset, both uint8_t promoted to int
LaneCase(size, offset) == Num(OR(SHL(U32(size), 2), U32(offset)))

\* case 0x04 .. 0x07 of pci_conv_rd_data (Bytes)
RdByte(value, c) ==
    CASE c = 4 -> AND(value, H_FF)
      [] c = 5 -> AND(SHR(value, 8), H_FF)
      [] c = 6 -> AND(SHR(value, 16), H_FF)
      [] c = 7 -> AND(SHR(value, 24), H_FF)

\* a wrap that is forgotten: offset 3 reads bytes 3 and (nothing) instead of 3 and 0
RdWordNoWrap(value, c) ==
    CASE c = 8  -> BYTESWAP_16(value)
      [] c = 9  -> BYTESWAP_16(AND(SHR(value, 8), H_FFFF))
      [] c = 10 -> BYTESWAP_16(AND(SHR(value, 16), H_FFFF))
      [] c = 11 -> BYTESWAP_16(AND(SHR(value, 24), H_FFFF))

\* case 0x08 .. 0x0B of pci_conv_rd_data (Words)
RdWord(value, c) ==
    CASE c = 8  -> BYTESWAP_16(value)
      [] c = 9  -> BYTESWAP_16(AND(SHR(value, 8), H_FFFF))
      [] c = 10 -> BYTESWAP_16(AND(SHR(value, 16), H_FFFF))
      [] c = 11 -> OR(AND(SHR(value, 16), H_FF00), AND(value, H_FF))

\* the rotations of offsets 1 and 3 exchanged
RdDwordRotSwapped(value, c) ==
    CASE c = 16 -> BYTESWAP_32(value)
      [] c = 17 -> ROTR_32(BYTESWAP_32(value), 8)
      [] c = 18 -> ROTL_32(BYTESWAP_32(value), 16)
      [] c = 19 -> ROTL_32(BYTESWAP_32(value), 8)

\* case 0x10 .. 0x13 of pci_conv_rd_data (Dwords)
RdDword(value, c) ==
    CASE c = 16 -> BYTESWAP_32(value)
      [] c = 17 -> ROTL_32(BYTESWAP_32(value), 8)
      [] c = 18 -> ROTL_32(BYTESWAP_32(value), 16)
      [] c = 19 -> ROTR_32(BYTESWAP_32(value), 8)

pci_conv_rd_data(value, size, offset) ==
    LET c == LaneCase(size, offset) IN
    CASE c \in 4..7   -> RdByte(value, c)
      [] c \in 8..11  -> RdWord(value, c)
      [] c \in 16..19 -> RdDword(value, c)
      [] OTHER        -> ALL_ONES

\* case 0x04 .. 0x07 of pci_conv_wr_data (Bytes)
WrByte(v1, v2, c) ==
    CASE c = 4 -> OR(AND(v1, NOT(H_FF)), AND(v2, H_FF))
      [] c = 5 -> OR(AND(v1, NOT(H_FF00)), SHL(AND(v2, H_FF), 8))
      [] c = 6 -> OR(AND(v1, NOT(H_FF0000)), SHL(AND(v2, H_FF), 16))
      [] c = 7 -> OR(AND(v1, H_00FFFFFF), SHL(AND(v2, H_FF), 24))

\* offset 3 places the two bytes the other way round: the low byte of v2 in
\* lane 3 and the high byte in lane 0
WrWordWrapSwapped(v1, v2, c) ==
    CASE c = 8  -> OR(AND(v1, NOT(H_FFFF)), BYTESWAP_16(v2))
      [] c = 9  -> OR(AND(v1, NOT(H_FFFF00)), SHL(BYTESWAP_16(v2), 8))
      [] c = 10 -> OR(AND(v1, H_FFFF), SHL(BYTESWAP_16(v2), 16))
      [] c = 11 -> OR(OR(AND(v1, H_FFFF00), SHL(AND(v2, H_FF), 24)),
                      AND(SHR(v2, 8), H_FF))

\* case 0x08 .. 0x0B of pci_conv_wr_data (Words)
WrWord(v1, v2, c) ==
    CASE c = 8  -> OR(AND(v1, NOT(H_FFFF)), BYTESWAP_16(v2))
      [] c = 9  -> OR(AND(v1, NOT(H_FFFF00)), SHL(BYTESWAP_16(v2), 8))
      [] c = 10 -> OR(AND(v1, H_FFFF), SHL(BYTESWAP_16(v2), 16))
      [] c = 11 -> OR(OR(AND(v1, H_FFFF00), SHL(AND(v2, H_FF00), 16)),
                      AND(v2, H_FF))

\* case 0x10 .. 0x13 of pci_conv_wr_data (Dwords)
WrDword(v2, c) ==
    CASE c = 16 -> BYTESWAP_32(v2)
      [] c = 17 -> ROTL_32(BYTESWAP_32(v2), 8)
      [] c = 18 -> ROTL_32(BYTESWAP_32(v2), 16)
      [] c = 19 -> ROTR_32(BYTESWAP_32(v2), 8)

pci_conv_wr_data(v1, v2, size, offset) ==
    LET c == LaneCase(size, offset) IN
    CASE c \in 4..7   -> WrByte(v1, v2, c)
      [] c \in 8..11  -> WrWord(v1, v2, c)
      [] c \in 16..19 -> WrDword(v2, c)
      [] OTHER        -> ALL_ONES

-----------------------------------------------------------------------------
(* Grand Central: constants of devices/ioctrl/macio.h *)

MIO_INT_EVENTS1 == 32   \* 0x20
MIO_INT_MASK1   == 36   \* 0x24
MIO_INT_CLEAR1  == 40   \* 0x28
MIO_INT_LEVELS1 == 44   \* 0x2C

\* the register offsets as words
W_INT_EVENTS1 == U32(MIO_INT_EVENTS1)
W_INT_MASK1   == U32(MIO_INT_MASK1)
W_INT_CLEAR1  == U32(MIO_INT_CLEAR1)
W_INT_LEVELS1 == U32(MIO_INT_LEVELS1)

MACIO_INT_CLR  == H_80       \* 0x80UL
MACIO_INT_MODE == {31}       \* 0x80000000UL: 1 - 68k-style, 0 - native

IntSrcBits == [VIA_CUDA |-> {18}, SCSI1 |-> {12}, SWIM3 |-> {19}]

-----------------------------------------------------------------------------
(* Grand Central: register decoding *)

\* the device register space taken for the offsets with bit 0x8000 clear only
InDevSpaceOnly(off) == AND(off, H_10000) # {} /\ AND(off, H_8000) = {}

InDevSpace(off) == AND(off, H_10000) # {}     \* offset & 0x10000
InDmaSpace(off) == AND(off, H_8000) # {}     \* offset & 0x8000

subdev_num(off) == Num(AND(SHR(off, 12), H_F))

\* the compatible addressing tested on the low 4 bits: (offset & 0xF) < 16
EsccCompatLowNibble(off) == Num(AND(off, H_F)) < 16

\* case 2: (offset & 0xFF) < 16
EsccCompat(off) == Num(AND(off, H_FF)) < 16

Call(dev, fn, reg) == [dev |-> dev, fn |-> fn, reg |-> reg]

\* the NVRAM address without the high address register
NvramAddrNoHi(hi, off) == AND(SHR(off, 4), H_1F)

NvramAddr(hi, off) == ADD(SHL(hi, 5), AND(SHR(off, 4), H_1F))

\* The device-register space of GrandCentral::read: the subdevice call made, or
\* (no call) the value returned.
DevRead(off, nvhi) ==
    LET n == subdev_num(off)
        to(c) == [window |-> "dev", subdev |-> n, calls |-> <<c>>, ret |-> {}]
        val(v) == [window |-> "dev", subdev |-> n, calls |-> <<>>, ret |-> v]
    IN  CASE n = 0 -> to(Call("scsi_0", "read", AND(SHR(off, 4), H_F)))
          [] n = 1 -> to(Call("mace", "read", AND(SHR(off, 4), H_1F)))
          [] n = 2 -> IF EsccCompat(off)
                      THEN to(Call("escc", "read", AND(SHR(off, 1), H_F)))
                      ELSE to(Call("escc", "read", AND(SHR(off, 4), H_F)))
          [] n = 3 -> to(Call("escc", "read", AND(SHR(off, 4), H_F)))
          [] n = 4 -> to(Call("awacs", "snd_ctrl_read", AND(off, H_FF)))
          [] n \in {6, 7} -> to(Call("viacuda", "read", AND(SHR(off, 9), H_F)))
          [] n = 10 -> val(BYTESWAP_32(H_100))
          [] n = 15 -> to(Call("nvram", "read_byte", NvramAddr(nvhi, off)))
          [] OTHER -> val(H_0)

DmaRead(off) ==
    LET n == subdev_num(off) IN
    IF n = 8
    THEN [window |-> "dma", subdev |-> n, ret |-> {},
          calls |-> <<Call("snd_out_dma", "reg_read", AND(off, H_FF))>>]
    ELSE [window |-> "dma", subdev |-> n, ret |-> H_0,
          calls |-> <<>>]

IntRead(off, mask, levels, events) ==
    LET val(v) == [window |-> "int", subdev |-> 0, calls |-> <<>>, ret |-> v]
    IN  CASE off = W_INT_MASK1   -> val(BYTESWAP_32(mask))
          [] off = W_INT_LEVELS1 -> val(BYTESWAP_32(levels))
          [] off = W_INT_EVENTS1 -> val(BYTESWAP_32(events))
          [] OTHER -> val(H_0)

GC_read(off, nvhi, mask, levels, events) ==
    IF InDevSpace(off) THEN DevRead(off, nvhi)
    ELSE IF InDmaSpace(off) THEN DmaRead(off)
    ELSE IntRead(off, mask, levels, events)

\* case 0xD of GrandCentral::write: the new NVRAM high address
NvramHiWrite(value, size) ==
    CASE size = 4 -> BYTESWAP_32(value)
      [] size = 2 -> BYTESWAP_16(value)
      [] OTHER -> value

\* The device-register space of GrandCentral::write: the subdevice call made and
\* the new nvram_addr_hi.
DevWrite(off, value, size, nvhi) ==
    LET n == subdev_num(off)
        to(c) == [window |-> "dev", subdev |-> n, calls |-> <<c>>, nvhi |-> nvhi]
    IN  CASE n = 0 -> to(Call("scsi_0", "write", AND(SHR(off, 4), H_F)))
          [] n = 1 -> to(Call("mace", "write", AND(SHR(off, 4), H_1F)))
          [] n = 2 -> IF EsccCompat(off)
                      THEN to(Call("escc", "write", AND(SHR(off, 1), H_F)))
                      ELSE to(Call("escc", "write", AND(SHR(off, 4), H_F)))
          [] n = 3 -> to(Call("escc", "write", AND(SHR(off, 4), H_F)))
          [] n = 4 -> to(Call("awacs", "snd_ctrl_write", AND(off, H_FF)))
          [] n \in {6, 7} -> to(Call("viacuda", "write", AND(SHR(off, 9), H_F)))
          [] n = 13 -> [window |-> "dev", subdev |-> n, calls |-> <<>>,
                        nvhi |-> NvramHiWrite(value, size)]
          [] n = 15 -> to(Call("nvram", "write_byte", NvramAddr(nvhi, off)))
          [] OTHER -> [window |-> "dev", subdev |-> n, calls |-> <<>>, nvhi |-> nvhi]

DmaWrite(off, nvhi) ==
    LET n == subdev_num(off) IN
    [window |-> "dma", subdev |-> n, nvhi |-> nvhi,
     calls |-> IF n = 8
               THEN <<Call("snd_out_dma", "reg_write", AND(off, H_FF))>>
               ELSE <<>>]

\* the mask stored as it comes from the bus
MaskWriteNoSwap(value) == value

\* case MIO_INT_MASK1 of GrandCentral::write
MaskWrite(value) == BYTESWAP_32(value)

\* the written value ORed into the events
ClearWriteOr(events, value) ==
    IF AND(value, MACIO_INT_CLR) # {} THEN {}
    ELSE OR(events, BYTESWAP_32(value))

\* the written value ANDed into the events as it comes from the bus
ClearWriteNoSwap(events, value) ==
    IF AND(value, MACIO_INT_CLR) # {} THEN {}
    ELSE AND(events, value)

\* case MIO_INT_CLEAR1 of GrandCentral::write
ClearWrite(events, value) ==
    IF AND(value, MACIO_INT_CLR) # {} THEN {}
    ELSE AND(events, BYTESWAP_32(value))

\* the mask is also written at 0x14, the MASK register of the second bank of
\* the other MacIO controllers (MIO_INT_MASK2)
IntWriteBothBanks(off, value, mask, events) ==
    CASE off \in {W_INT_MASK1, U32(20)} ->
             [mask |-> MaskWrite(value), events |-> events]
      [] off = W_INT_CLEAR1 -> [mask |-> mask, events |-> ClearWrite(events, value)]
      [] OTHER -> [mask |-> mask, events |-> events]

\* the EVENTS register taken as writable
IntWriteEventsWritable(off, value, mask, events) ==
    CASE off = W_INT_MASK1  -> [mask |-> MaskWrite(value), events |-> events]
      [] off = W_INT_CLEAR1 -> [mask |-> mask,
                                       events |-> ClearWrite(events, value)]
      [] off = W_INT_EVENTS1 -> [mask |-> mask, events |-> BYTESWAP_32(value)]
      [] OTHER -> [mask |-> mask, events |-> events]

\* The interrupt related registers of GrandCentral::write: the new mask and events.
IntWrite(off, value, mask, events) ==
    CASE off = W_INT_MASK1  -> [mask |-> MaskWrite(value), events |-> events]
      [] off = W_INT_CLEAR1 -> [mask |-> mask,
                                       events |-> ClearWrite(events, value)]
      [] OTHER -> [mask |-> mask, events |-> events]

GC_write(off, value, size, nvhi, mask, events) ==
    IF InDevSpace(off)
    THEN LET w == DevWrite(off, value, size, nvhi)
         IN  [window |-> w.window, subdev |-> w.subdev, calls |-> w.calls,
              nvhi |-> w.nvhi, mask |-> mask, events |-> events]
    ELSE IF InDmaSpace(off)
    THEN LET w == DmaWrite(off, nvhi)
         IN  [window |-> w.window, subdev |-> w.subdev, calls |-> w.calls,
              nvhi |-> w.nvhi, mask |-> mask, events |-> events]
    ELSE LET w == IntWrite(off, value, mask, events)
         IN  [window |-> "int", subdev |-> 0, calls |-> <<>>,
              nvhi |-> nvhi, mask |-> w.mask, events |-> w.events]

-----------------------------------------------------------------------------
(* Grand Central: interrupt controller *)

\* the mode test always taken as the 68k emulation mode
InLegacyModeAlways(mask) == TRUE

InLegacyMode(mask) == AND(mask, MACIO_INT_MODE) # {}

\* the mask applied before the source is recorded
AckEventsMaskFirst(events, irq_id, mask) == OR(AND(events, mask), irq_id)

\* the source recorded and no mask applied
AckEventsNoMask(events, irq_id, mask) == OR(events, irq_id)

\* int_events |= irq_id; int_events &= int_mask
AckEvents(events, irq_id, mask) == AND(OR(events, irq_id), mask)

\* a line that is never seen deasserted
AckLevelsSetOnly(levels, irq_id, irq_line_state) ==
    IF irq_line_state # 0 THEN OR(levels, irq_id) ELSE levels

\* update IRQ line state
AckLevels(levels, irq_id, irq_line_state) ==
    IF irq_line_state # 0 THEN OR(levels, irq_id) ELSE AND(levels, NOT(irq_id))

\* one notification for each pending event
AckIntsPerEvent(events) == Cardinality(events)

\* signal CPU interrupt: the number of calls of ppc_ext_int
AckInts(events) == IF events # {} THEN 1 ELSE 0


\* an unknown source given the value 0
RegisterDevIntNoAbort(src_id) ==
    IF src_id \in DOMAIN IntSrcBits
    THEN [abort |-> FALSE, ret |-> IntSrcBits[src_id]]
    ELSE [abort |-> FALSE, ret |-> {}]

\* GrandCentral::register_dev_int: the value returned, or ABORT_F
register_dev_int(src_id) ==
    IF src_id \in DOMAIN IntSrcBits
    THEN [abort |-> FALSE, ret |-> IntSrcBits[src_id]]
    ELSE [abort |-> TRUE, ret |-> {}]

-----------------------------------------------------------------------------
(* Inputs *)

\* the words conversions are tried on; Val(0) = 0xAABBCCDD
Val(i) == Word((170 + 37 * i) % 256, (187 + 59 * i) % 256,
               (204 + 83 * i) % 256, (221 + 101 * i) % 256)
ConvVals    == {Val(i) : i \in 0..MaxVal}
ConvSizes   == 0..MaxSize
ConvOffsets == 0..MaxOffset

\* values a subdevice returns from a read
DevRets == {H_0, U32(165)}

\* the interrupt sources that acknowledge
IrqIds == {IntSrcBits[s] : s \in DOMAIN IntSrcBits}
SrcIds == {"VIA_CUDA", "SCSI1", "SWIM3", "OTHER"}

\* masks the guest writes (as stored, the value on the bus is byte-swapped)
GuestMasks == {{31, 18, 12, 19}, {31, 18}, {12, 19}}
BusVals    == {BYTESWAP_32(m) : m \in GuestMasks}
BusSizes   == {1, 4}

\* the offsets the guest accesses while interrupts are acknowledged: the interrupt
\* registers, 0x0 and 0x9000 (unmapped) and 0x12005 (ESCC)
GcOffsets == {W_INT_EVENTS1, W_INT_MASK1, W_INT_CLEAR1, W_INT_LEVELS1,
              H_0, U32(36864), U32(73733)}

\* the offsets of the decoding: every 4K page of the 128K window, with the low
\* bits 0x005, 0x014, 0x024 and 0x305
RoutePages   == 0..31
RouteLows    == {5, 20, 36, 773}
RouteOffsets == {U32(4096 * pg + lo) : pg \in RoutePages, lo \in RouteLows}
RouteVals    == {Word(1, 2, 0, 128)}
RouteSizes   == {2, 4}

BarVals == {H_0, Word(243, 0, 0, 0), Word(243, 0, 0, 8), Word(128, 128, 0, 0)}

-----------------------------------------------------------------------------
(* State *)

Pre == [mask |-> int_mask, levels |-> int_levels, events |-> int_events,
        nvhi |-> nvram_addr_hi, base |-> base_addr, regions |-> mmio_regions]

\* no operation yet
Idle == [op |-> "none", offset |-> {}, size |-> 0, value |-> {},
         window |-> "none", subdev |-> 0, calls |-> <<>>, ret |-> {},
         irq_id |-> {}, irq_line_state |-> 0, ints |-> 0,
         bar_num |-> 0, src_id |-> "",
         pre |-> [mask |-> {}, levels |-> {}, events |-> {}, nvhi |-> {},
                  base |-> {}, regions |-> <<>>]]

ConvIdle == [op |-> "none", v1 |-> {}, v2 |-> {}, size |-> 0, offset |-> 0,
             mid |-> {}, out |-> {}]

\* where an access was delivered: the window, the subdevice id and the device
\* and local offset of each subdevice call
RouteOf(l) ==
    [window |-> l.window, subdev |-> l.subdev,
     targets |-> [i \in DOMAIN l.calls |-> <<l.calls[i].dev, l.calls[i].reg>>]]

NoProbe == [set |-> FALSE, offset |-> {}, route |-> RouteOf(Idle)]

\* no ack_int and no write under way: apc and bpc are the positions of the thread
\* in ack_int and of the thread in write, atmp and btmp the values they loaded
NoRace == [on |-> FALSE, apc |-> "idle", bpc |-> "idle",
           irq_id |-> {}, irq_line_state |-> 0, atmp |-> {},
           offset |-> {}, value |-> {}, btmp |-> {}, ints |-> 0,
           pre |-> [mask |-> {}, levels |-> {}, events |-> {}, aborted |-> FALSE]]

GcInit ==
    /\ int_mask = {}
    /\ int_levels = {}
    /\ int_events = {}
    /\ base_addr = {}
    /\ bars = [n \in {0, 1} |-> {}]
    /\ mmio_regions = <<>>
    /\ aborted = FALSE
    /\ last = Idle
    /\ probe = NoProbe
    /\ race = NoRace

Init ==
    /\ GcInit
    /\ nvram_addr_hi \in {H_0, U32(1)}
    /\ conv = ConvIdle

-----------------------------------------------------------------------------
(* Grand Central: operations *)

Read(offset, size) ==
    LET r == GC_read(offset, nvram_addr_hi, int_mask, int_levels, int_events)
    IN  /\ ~aborted
        /\ \E dv \in (IF r.calls # <<>> THEN DevRets ELSE {r.ret}) :
              last' = [Idle EXCEPT !.op = "read", !.offset = offset, !.size = size,
                                   !.window = r.window, !.subdev = r.subdev,
                                   !.calls = r.calls, !.ret = dv, !.pre = Pre]
        /\ UNCHANGED <<int_mask, int_levels, int_events, nvram_addr_hi, base_addr,
                       bars, mmio_regions, aborted, conv, race>>

Write(offset, value, size) ==
    LET w == GC_write(offset, value, size, nvram_addr_hi, int_mask, int_events)
    IN  /\ ~aborted
        /\ int_mask' = w.mask
        /\ int_events' = w.events
        /\ nvram_addr_hi' = w.nvhi
        /\ last' = [Idle EXCEPT !.op = "write", !.offset = offset, !.size = size,
                                !.value = value, !.window = w.window,
                                !.subdev = w.subdev, !.calls = w.calls, !.pre = Pre]
        /\ UNCHANGED <<int_levels, base_addr, bars, mmio_regions, aborted, conv,
                       race>>

ack_int(irq_id, irq_line_state) ==
    /\ ~aborted
    /\ IF InLegacyMode(int_mask)
       THEN /\ int_events' = AckEvents(int_events, irq_id, int_mask)
            /\ int_levels' = AckLevels(int_levels, irq_id, irq_line_state)
            /\ aborted' = FALSE
            /\ last' = [Idle EXCEPT !.op = "ack", !.irq_id = irq_id,
                                    !.irq_line_state = irq_line_state,
                                    !.ints = AckInts(int_events'),
                                    !.pre = Pre]
       ELSE /\ aborted' = TRUE
            /\ last' = [Idle EXCEPT !.op = "ack", !.irq_id = irq_id,
                                    !.irq_line_state = irq_line_state, !.pre = Pre]
            /\ UNCHANGED <<int_events, int_levels>>
    /\ UNCHANGED <<int_mask, nvram_addr_hi, base_addr, bars, mmio_regions, conv,
                   probe, race>>

\* GrandCentral::register_dev_int
RegisterDevInt(src_id) ==
    LET r == register_dev_int(src_id)
    IN  /\ ~aborted
        /\ aborted' = r.abort
        /\ last' = [Idle EXCEPT !.op = "register", !.src_id = src_id,
                                !.ret = r.ret, !.pre = Pre]
        /\ UNCHANGED <<int_mask, int_levels, int_events, nvram_addr_hi, base_addr,
                       bars, mmio_regions, conv, probe, race>>


\* the BAR value taken as the base address with its low bits
BarBaseRaw(bar) == bar

\* this->bars[bar_num] & 0xFFFFFFF0UL
BarBase(bar) == AND(bar, NOT(H_F))

\* every BAR index handled as BAR 0 is
BarMovedAnyIndex(bar_num, base, nbars) == base # BarBase(nbars[bar_num])

\* notify_bar_change goes on to register a region: bar_num is 0 and the base
\* address differs from bars[bar_num] & 0xFFFFFFF0UL
BarMoved(bar_num, base, nbars) ==
    bar_num = 0 /\ base # BarBase(nbars[bar_num])

\* the region at the new base taking the place of the regions registered before
RegisterRegionInPlace(regions, base) == <<[start |-> base, size |-> H_20000]>>

\* this->host_instance->pci_register_mmio_region(this->base_addr, 0x20000, this)
RegisterRegion(regions, base) ==
    Append(regions, [start |-> base, size |-> H_20000])

\* A PCI configuration write that sets bars[bar_num] and then calls
\* GrandCentral::notify_bar_change(bar_num).
BarWrite(bar_num, value) ==
    LET nbars == [bars EXCEPT ![bar_num] = value]
        moved == BarMoved(bar_num, base_addr, nbars)
    IN  /\ ~aborted
        /\ moved => Len(mmio_regions) < MaxRegions
        /\ bars' = nbars
        /\ base_addr' = IF moved THEN BarBase(nbars[0]) ELSE base_addr
        /\ mmio_regions' = IF moved
                           THEN RegisterRegion(mmio_regions, BarBase(nbars[0]))
                           ELSE mmio_regions
        /\ last' = [Idle EXCEPT !.op = "bar", !.bar_num = bar_num, !.value = value,
                                !.pre = Pre]
        /\ UNCHANGED <<int_mask, int_levels, int_events, nvram_addr_hi, aborted,
                       conv, probe, race>>

-----------------------------------------------------------------------------
(* The controller under guest accesses and interrupt acknowledges *)

BusRead(offsets, sizes) ==
    \E offset \in offsets, size \in sizes : Read(offset, size) /\ UNCHANGED probe

BusWrite(offsets, values, sizes) ==
    \E offset \in offsets, value \in values, size \in sizes :
        Write(offset, value, size) /\ UNCHANGED probe

GuestRead == BusRead(GcOffsets, BusSizes)

GuestWrite == BusWrite(GcOffsets, BusVals, BusSizes)

Acknowledge == \E irq_id \in IrqIds, st \in {0, 1} : ack_int(irq_id, st)

RegisterSource == \E src_id \in SrcIds : RegisterDevInt(src_id)

Next == GuestRead \/ GuestWrite \/ Acknowledge \/ RegisterSource

Spec == Init /\ [][Next]_vars

-----------------------------------------------------------------------------
(* The decoding of the whole register window *)

RouteRead == BusRead(RouteOffsets, RouteSizes)

RouteWrite == BusWrite(RouteOffsets, RouteVals, RouteSizes)

RouteNext == RouteRead \/ RouteWrite

RouteSpec == Init /\ [][RouteNext]_vars

-----------------------------------------------------------------------------
(* Two accesses of one offset: the first access made is kept in probe *)

\* 0x24 (MASK), 0x12005 (ESCC), 0x1D000 (NVRAM high address), 0x1F014 and
\* 0x1F305 (NVRAM data)
ProbeOffsets == {W_INT_MASK1, U32(73733), U32(118784), U32(126996), U32(127749)}

Probed == IF probe.set THEN probe
          ELSE [set |-> TRUE, offset |-> last'.offset, route |-> RouteOf(last')]

ProbeRead ==
    \E offset \in ProbeOffsets, size \in RouteSizes :
        Read(offset, size) /\ probe' = Probed

ProbeWrite ==
    \E offset \in ProbeOffsets, value \in RouteVals, size \in RouteSizes :
        Write(offset, value, size) /\ probe' = Probed

ProbeNext == ProbeRead \/ ProbeWrite

ProbeSpec == Init /\ [][ProbeNext]_vars

-----------------------------------------------------------------------------
(* The controller under PCI configuration writes to its BARs *)

PciBarWrite == \E bar_num \in {0, 1}, value \in BarVals : BarWrite(bar_num, value)

BarNext == PciBarWrite \/ GuestRead

BarSpec == Init /\ [][BarNext]_vars

-----------------------------------------------------------------------------
(* ack_int on the callback thread while write runs on the bus thread.  Neither  *)
(* function takes a lock.  A statement that updates a field in place (|=, &=)   *)
(* is either one indivisible step or, the field being a plain integer, a load   *)
(* followed by a store; both are steps of the threads below.                    *)

\* the registers the bus thread writes while an interrupt is acknowledged
RaceOffsets == {W_INT_MASK1, W_INT_CLEAR1}

\* the two threads enter ack_int(irq_id, irq_line_state) and write(offset, value)
RaceStart ==
    /\ ~aborted
    /\ ~race.on
    /\ \E irq_id \in IrqIds, st \in {0, 1}, offset \in RaceOffsets, value \in BusVals :
          race' = [NoRace EXCEPT !.on = TRUE, !.apc = "mode", !.bpc = "start",
                                 !.irq_id = irq_id, !.irq_line_state = st,
                                 !.offset = offset, !.value = value,
                                 !.pre = [mask |-> int_mask, levels |-> int_levels,
                                          events |-> int_events, aborted |-> FALSE]]
    /\ last' = [Idle EXCEPT !.op = "race", !.pre = Pre]
    /\ UNCHANGED <<int_mask, int_levels, int_events, nvram_addr_hi, base_addr,
                   bars, mmio_regions, aborted, conv, probe>>

\* if (this->int_mask & MACIO_INT_MODE) ... else ABORT_F
AckMode ==
    /\ ~aborted /\ race.apc = "mode"
    /\ IF InLegacyMode(int_mask)
       THEN race' = [race EXCEPT !.apc = "or"] /\ UNCHANGED aborted
       ELSE race' = [race EXCEPT !.apc = "done"] /\ aborted' = TRUE
    /\ UNCHANGED <<int_mask, int_levels, int_events, nvram_addr_hi, base_addr,
                   bars, mmio_regions, last, conv, probe>>

\* this->int_events |= irq_id: in one step, or its load
AckOr ==
    /\ ~aborted /\ race.apc = "or"
    /\ \/ /\ int_events' = OR(int_events, race.irq_id)
          /\ race' = [race EXCEPT !.apc = "and"]
       \/ /\ race' = [race EXCEPT !.apc = "or_store",
                                   !.atmp = OR(int_events, race.irq_id)]
          /\ UNCHANGED int_events
    /\ UNCHANGED <<int_mask, int_levels, nvram_addr_hi, base_addr, bars,
                   mmio_regions, aborted, last, conv, probe>>

\* this->int_events &= this->int_mask: in one step, or its loads
AckAnd ==
    /\ ~aborted /\ race.apc = "and"
    /\ \/ /\ int_events' = AND(int_events, int_mask)
          /\ race' = [race EXCEPT !.apc = "levels"]
       \/ /\ race' = [race EXCEPT !.apc = "and_store",
                                   !.atmp = AND(int_events, int_mask)]
          /\ UNCHANGED int_events
    /\ UNCHANGED <<int_mask, int_levels, nvram_addr_hi, base_addr, bars,
                   mmio_regions, aborted, last, conv, probe>>

\* the store of this->int_events |= irq_id or of this->int_events &= this->int_mask
AckStore ==
    /\ ~aborted /\ race.apc \in {"or_store", "and_store"}
    /\ int_events' = race.atmp
    /\ race' = [race EXCEPT !.apc = IF race.apc = "or_store" THEN "and"
                                    ELSE "levels"]
    /\ UNCHANGED <<int_mask, int_levels, nvram_addr_hi, base_addr, bars,
                   mmio_regions, aborted, last, conv, probe>>

\* update IRQ line state (only ack_int writes int_levels)
AckLine ==
    /\ ~aborted /\ race.apc = "levels"
    /\ int_levels' = AckLevels(int_levels, race.irq_id, race.irq_line_state)
    /\ race' = [race EXCEPT !.apc = "int"]
    /\ UNCHANGED <<int_mask, int_events, nvram_addr_hi, base_addr, bars,
                   mmio_regions, aborted, last, conv, probe>>

\* if (this->int_events) ppc_ext_int()
AckSignal ==
    /\ ~aborted /\ race.apc = "int"
    /\ race' = [race EXCEPT !.apc = "done",
                            !.ints = AckInts(int_events)]
    /\ UNCHANGED <<int_mask, int_levels, int_events, nvram_addr_hi, base_addr,
                   bars, mmio_regions, aborted, last, conv, probe>>

\* The write of the bus thread in one step: this->int_mask = BYTESWAP_32(value),
\* this->int_events = 0 or this->int_events &= BYTESWAP_32(value).
BusStore ==
    LET w == IntWrite(race.offset, race.value, int_mask, int_events)
    IN  /\ ~aborted /\ race.bpc = "start"
        /\ int_mask' = w.mask
        /\ int_events' = w.events
        /\ race' = [race EXCEPT !.bpc = "done"]
        /\ UNCHANGED <<int_levels, nvram_addr_hi, base_addr, bars, mmio_regions,
                       aborted, last, conv, probe>>

\* the load of this->int_events &= BYTESWAP_32(value)
BusClearLoad ==
    /\ ~aborted /\ race.bpc = "start"
    /\ race.offset = W_INT_CLEAR1
    /\ AND(race.value, MACIO_INT_CLR) = {}
    /\ race' = [race EXCEPT !.bpc = "store",
                            !.btmp = ClearWrite(int_events, race.value)]
    /\ UNCHANGED <<int_mask, int_levels, int_events, nvram_addr_hi, base_addr,
                   bars, mmio_regions, aborted, last, conv, probe>>

\* the store of this->int_events &= BYTESWAP_32(value)
BusClearStore ==
    /\ ~aborted /\ race.bpc = "store"
    /\ int_events' = race.btmp
    /\ race' = [race EXCEPT !.bpc = "done"]
    /\ UNCHANGED <<int_mask, int_levels, nvram_addr_hi, base_addr, bars,
                   mmio_regions, aborted, last, conv, probe>>

\* the registers are set up by the bus thread alone before the two threads meet
RaceSetup ==
    /\ ~race.on
    /\ \/ BusWrite(RaceOffsets, BusVals, {4})
       \/ Acknowledge

RaceNext ==
    \/ RaceSetup
    \/ RaceStart
    \/ AckMode \/ AckOr \/ AckAnd \/ AckStore \/ AckLine \/ AckSignal
    \/ BusStore \/ BusClearLoad \/ BusClearStore

RaceSpec == Init /\ [][RaceNext]_vars

-----------------------------------------------------------------------------
(* The guest alone: its first access puts the controller in the 68k interrupt   *)
(* emulation mode, then it reads and writes as it likes while the registered    *)
(* sources acknowledge.                                                         *)

EnterLegacy ==
    /\ last.op = "none"
    /\ \E value \in BusVals :
          /\ InLegacyMode(MaskWrite(value))
          /\ Write(W_INT_MASK1, value, 4)
    /\ UNCHANGED probe

GuestNext ==
    \/ EnterLegacy
    \/ last.op # "none" /\ GuestRead
    \/ last.op # "none" /\ GuestWrite
    \/ last.op # "none" /\ Acknowledge

GuestSpec == Init /\ [][GuestNext]_vars

-----------------------------------------------------------------------------
(* The interrupt registers, the acknowledges and the BARs together *)

ModeOffsets == {W_INT_MASK1, W_INT_CLEAR1}
ModeBarVals == {Word(243, 0, 0, 8), Word(128, 128, 0, 0)}

ModeRead == BusRead(ModeOffsets, {4})

ModeWrite == BusWrite(ModeOffsets, BusVals, {4})

ModeBarWrite == \E bar_num \in {0, 1}, value \in ModeBarVals : BarWrite(bar_num, value)

ModeNext == ModeRead \/ ModeWrite \/ Acknowledge \/ ModeBarWrite

ModeSpec == Init /\ [][ModeNext]_vars

-----------------------------------------------------------------------------
(* The byte-lane helpers on every access of the bounds *)

ConvInit ==
    /\ GcInit
    /\ nvram_addr_hi = H_0
    /\ \E v1 \in ConvVals, v2 \in ConvVals, size \in ConvSizes, offset \in ConvOffsets :
          conv = [ConvIdle EXCEPT !.v1 = v1, !.v2 = v2, !.size = size,
                                  !.offset = offset]

\* out = pci_conv_rd_data(v1, details)
ConvRead ==
    /\ conv.op = "none"
    /\ conv' = [conv EXCEPT !.op = "rd",
                            !.out = pci_conv_rd_data(conv.v1, conv.size, conv.offset)]
    /\ UNCHANGED gc_vars

\* out = pci_conv_wr_data(v1, v2, details)
ConvWrite ==
    /\ conv.op = "none"
    /\ conv' = [conv EXCEPT !.op = "wr",
                            !.out = pci_conv_wr_data(conv.v1, conv.v2, conv.size,
                                                     conv.offset)]
    /\ UNCHANGED gc_vars

\* the value read is written back: out = pci_conv_wr_data(v1, mid, details)
ConvWriteBack ==
    /\ conv.op = "rd"
    /\ conv' = [conv EXCEPT !.op = "rd_wr", !.mid = conv.out,
                            !.out = pci_conv_wr_data(conv.v1, conv.out, conv.size,
                                                     conv.offset)]
    /\ UNCHANGED gc_vars

\* the word written is read back: out = pci_conv_rd_data(mid, details)
ConvReadBack ==
    /\ conv.op = "wr"
    /\ conv' = [conv EXCEPT !.op = "wr_rd", !.mid = conv.out,
                            !.out = pci_conv_rd_data(conv.out, conv.size,
                                                     conv.offset)]
    /\ UNCHANGED gc_vars

ConvNext == ConvRead \/ ConvWrite \/ ConvWriteBack \/ ConvReadBack

ConvSpec == ConvInit /\ [][ConvNext]_vars

-----------------------------------------------------------------------------
(* Claims on the byte-lane helpers (ConvSpec) *)

\* size in {1,2,4} together with offset in {0,1,2,3}
ValidAccess(size, offset) == size \in {1, 2, 4} /\ offset \in 0..3

\* the lanes an access of size bytes at offset addresses, wrapping around
Lanes(size, offset) == {(offset + k) % 4 : k \in 0..(size - 1)}

\* the byte at lane offset + k (wrapping) of a word
LaneByte(w, offset, k) == ByteAt(w, (offset + k) % 4)

\* the big-endian number of the size bytes of w from lane offset on
BigEndianAt(w, size, offset) ==
    CASE size = 1 -> Word(0, 0, 0, LaneByte(w, offset, 0))
      [] size = 2 -> Word(0, 0, LaneByte(w, offset, 0), LaneByte(w, offset, 1))
      [] size = 4 -> Word(LaneByte(w, offset, 0), LaneByte(w, offset, 1),
                          LaneByte(w, offset, 2), LaneByte(w, offset, 3))

\* v mod 2^(8 * size)
LowBytes(v, size) == {i \in v : i < 8 * size}

V_AABBCCDD == Word(170, 187, 204, 221)

\* C2: writing back what a valid access read gives the backing word again:
\* pci_conv_wr_data(v, pci_conv_rd_data(v, d), d) = v.
C2_RoundTrip ==
    (conv.op = "rd_wr" /\ ValidAccess(conv.size, conv.offset)) => conv.out = conv.v1

C2_Witness ==
    /\ conv.op = "rd_wr"
    /\ conv.size = 2 /\ conv.offset = 3
    /\ conv.mid = Word(0, 0, ByteAt(conv.v1, 3), ByteAt(conv.v1, 0))
    /\ conv.out = conv.v1

\* C3: a valid read returns the big-endian number of the bytes at lanes offset,
\* offset + 1 mod 4, ...; a 2-byte read at offset 3 of 0xAABBCCDD returns 0xAADD
\* and a 4-byte read at offset o is the offset 0 result rotated left by 8 * o bits.
C3_ReadIsBigEndian ==
    (conv.op = "rd" /\ ValidAccess(conv.size, conv.offset)) =>
        /\ conv.out = BigEndianAt(conv.v1, conv.size, conv.offset)
        /\ (conv.v1 = V_AABBCCDD /\ conv.size = 2 /\ conv.offset = 3)
              => conv.out = Word(0, 0, 170, 221)
        /\ conv.size = 4 =>
              \A i \in Bit32 :
                 (i \in conv.out) <=>
                 (((i + 32 - 8 * conv.offset) % 32)
                     \in BigEndianAt(conv.v1, 4, 0))

C3_Witness ==
    /\ conv.op = "rd"
    /\ conv.v1 = V_AABBCCDD /\ conv.size = 2 /\ conv.offset = 3
    /\ conv.out = Word(0, 0, 170, 221)

\* C4 as claimed: a 4-byte read at offset 1 of 0xAABBCCDD returns 0xBBCCDDAA, the
\* backing value rotated left by 8 bits.
C4_Original ==
    (conv.op = "rd" /\ conv.v1 = V_AABBCCDD /\ conv.size = 4 /\ conv.offset = 1)
        => conv.out = Word(187, 204, 221, 170)

\* C4 as amended: a 4-byte read at offset 1 of 0xAABBCCDD returns 0xCCBBAADD, the
\* byte-swapped backing value (0xDDCCBBAA) rotated left by 8 bits.
C4_ReadDwordAtOne ==
    (conv.op = "rd" /\ conv.v1 = V_AABBCCDD /\ conv.size = 4 /\ conv.offset = 1)
        => conv.out = Word(204, 187, 170, 221)

C4_Witness ==
    /\ conv.op = "rd"
    /\ conv.v1 = V_AABBCCDD /\ conv.size = 4 /\ conv.offset = 1
    /\ conv.out = Word(204, 187, 170, 221)

\* C5: a valid write changes only the lanes offset .. offset + size - 1 mod 4 of
\* the current word, and reading the result back with the same access returns the
\* low size bytes of the incoming value.
C5_WriteFrame ==
    (conv.op = "wr_rd" /\ ValidAccess(conv.size, conv.offset)) =>
        /\ \A i \in (0..3) \ Lanes(conv.size, conv.offset) :
              ByteAt(conv.mid, i) = ByteAt(conv.v1, i)
        /\ conv.out = LowBytes(conv.v2, conv.size)

C5_Witness ==
    /\ conv.op = "wr_rd"
    /\ conv.size = 2 /\ conv.offset = 3
    /\ conv.mid # conv.v1
    /\ ByteAt(conv.mid, 1) = ByteAt(conv.v1, 1)
    /\ ByteAt(conv.mid, 2) = ByteAt(conv.v1, 2)
    /\ conv.out = LowBytes(conv.v2, 2)
    /\ conv.out # {}

\* C6: every size and offset that is no valid access makes both conversions
\* return 0xFFFFFFFF.
C6_InvalidIsSentinel ==
    (conv.op \in {"rd", "wr"} /\ ~ValidAccess(conv.size, conv.offset))
        => conv.out = ALL_ONES

-----------------------------------------------------------------------------
(* Claims on the interrupt state (Spec) *)

\* C1: in the state right after an acknowledge that returns, events & ~mask = 0.
C1_AckRemasks ==
    (last.op = "ack" /\ ~aborted) => AND(int_events, NOT(int_mask)) = {}

\* an acknowledge that found events the mask no longer allows, and left one event
C1_Witness ==
    /\ last.op = "ack" /\ ~aborted
    /\ AND(last.pre.events, NOT(int_mask)) # {}
    /\ int_events # {}
    /\ AND(int_events, NOT(int_mask)) = {}

-----------------------------------------------------------------------------
(* Claims on the decoding (RouteSpec, ProbeSpec) *)

IsAccess(l) == l.op \in {"read", "write"}

\* the window and the subdevice id of an offset, by the bits of the offset
WindowOf(n) ==
    IF (n \div 65536) % 2 = 1 THEN "dev"
    ELSE IF (n \div 32768) % 2 = 1 THEN "dma"
    ELSE "int"

SubdevOf(n) == (n \div 4096) % 16

\* C7: read and write take an offset to one window, both the same way: the device
\* registers when bit 0x10000 is set, else the DMA registers when bit 0x8000 is
\* set, else the interrupt registers; the subdevice id is (offset >> 12) & 0xF.
C7_Windows ==
    IsAccess(last) =>
        LET n == Num(last.offset) IN
        /\ last.window = WindowOf(n)
        /\ last.window \in {"dev", "dma"} => last.subdev = SubdevOf(n)

\* a write to 0x1D000 + x, with both bits set, taken as a device register
C7_Witness ==
    /\ last.op = "write"
    /\ {15, 16} \subseteq last.offset
    /\ last.window = "dev"
    /\ last.subdev = 13

\* C8: a device register access of subdevice 2 makes one ESCC access, at
\* (offset >> 1) & 0xF when (offset & 0xFF) < 16 and at (offset >> 4) & 0xF
\* otherwise; subdevice 3 makes one at (offset >> 4) & 0xF.
C8_Escc ==
    (IsAccess(last) /\ last.window = "dev" /\ last.subdev \in {2, 3}) =>
        LET n == Num(last.offset)
            reg == IF last.subdev = 2 /\ n % 256 < 16
                   THEN (n \div 2) % 16 ELSE (n \div 16) % 16
        IN  /\ Len(last.calls) = 1
            /\ last.calls[1].dev = "escc"
            /\ last.calls[1].fn = last.op
            /\ Num(last.calls[1].reg) = reg
            /\ (last.subdev = 2 /\ n % 256 = 5) => Num(last.calls[1].reg) = 2
            /\ (last.subdev = 2 /\ n % 256 = 20) => Num(last.calls[1].reg) = 1

\* the fall through: subdevice 2 at offset & 0xFF = 20 decoded as subdevice 3 is
C8_Witness ==
    /\ last.op = "read"
    /\ last.window = "dev" /\ last.subdev = 2
    /\ Num(last.offset) % 256 = 20
    /\ last.calls = <<Call("escc", "read", U32(1))>>

NvramData(n) == WindowOf(n) = "dev" /\ SubdevOf(n) = 15

DevIds  == {0, 1, 2, 3, 4, 6, 7, 10, 13, 15}
DmaIds  == {8}
IntRegs == {MIO_INT_EVENTS1, MIO_INT_MASK1, MIO_INT_CLEAR1, MIO_INT_LEVELS1}

Unknown(n) ==
    CASE WindowOf(n) = "dev" -> SubdevOf(n) \notin DevIds
      [] WindowOf(n) = "dma" -> SubdevOf(n) \notin DmaIds
      [] OTHER -> n \notin IntRegs

\* C10: at an offset no case handles, a read returns 0 and a write changes no
\* controller state and calls no subdevice; neither aborts.
C10_UnknownNonFatal ==
    [][ (IsAccess(last') /\ Unknown(Num(last'.offset))) =>
            /\ ~aborted'
            /\ last'.calls = <<>>
            /\ last'.op = "read" => last'.ret = H_0
            /\ last'.op = "write" =>
                  UNCHANGED <<int_mask, int_levels, int_events, nvram_addr_hi,
                              base_addr>> ]_vars

\* a write at 0x14, which is no register of this controller, after the mask was set
C10_Witness ==
    /\ last.op = "write"
    /\ Num(last.offset) = 20
    /\ last.value # {}
    /\ last.calls = <<>>
    /\ int_mask # {}
    /\ int_mask = last.pre.mask
    /\ ~aborted

-----------------------------------------------------------------------------
(* Claims on the interrupt registers (Spec) *)

IsWriteAt(l, off) == l.op = "write" /\ l.offset = off

\* events & ~mask
Stale(events, mask) == AND(events, NOT(mask))

\* C11 as claimed: in the state after every acknowledge that returns, every MASK
\* write and every CLEAR write, events & ~mask = 0.
C11_Original ==
    (~aborted /\ (last.op = "ack" \/ IsWriteAt(last, W_INT_MASK1)
                               \/ IsWriteAt(last, W_INT_CLEAR1)))
        => Stale(int_events, int_mask) = {}

\* C11 as amended: events & ~mask = 0 after every acknowledge that returns; a
\* CLEAR write adds no bit to events & ~mask; a MASK write leaves events as they
\* are, so the bits of events that the new mask excludes stay set.
C11_InterruptState ==
    /\ (last.op = "ack" /\ ~aborted) => Stale(int_events, int_mask) = {}
    /\ IsWriteAt(last, W_INT_CLEAR1) =>
          Stale(int_events, int_mask) \subseteq Stale(last.pre.events, last.pre.mask)
    /\ IsWriteAt(last, W_INT_MASK1) =>
          Stale(int_events, int_mask) = Stale(last.pre.events, int_mask)

\* a MASK write that left an event of a source it disables
C11_Witness ==
    /\ IsWriteAt(last, W_INT_MASK1)
    /\ Stale(last.pre.events, last.pre.mask) = {}
    /\ Stale(int_events, int_mask) # {}

\* C12: a MASK write stores the written value as the mask (byte-swapped, as the
\* MASK read swaps it back: a MASK read that follows returns the value written),
\* changes neither events nor levels and does not notify the processor.
C12_SetMask ==
    [][ /\ IsWriteAt(last', W_INT_MASK1) =>
              /\ int_mask' = BYTESWAP_32(last'.value)
              /\ int_events' = int_events
              /\ int_levels' = int_levels
              /\ last'.ints = 0
              /\ ~aborted'
        /\ (IsWriteAt(last, W_INT_MASK1) /\ last'.op = "read"
                                        /\ last'.offset = W_INT_MASK1) =>
              last'.ret = last.value ]_vars

\* a MASK read right after a MASK write that changed the mask and disabled a
\* source with a pending event
C12_Witness ==
    /\ last.op = "read" /\ last.offset = W_INT_MASK1
    /\ last.ret = BYTESWAP_32(int_mask)
    /\ last.ret # int_mask
    /\ Stale(int_events, int_mask) # {}
    /\ int_levels # {}

\* C13: a CLEAR write with the clear-all bit leaves events = 0; without it events
\* is the old events ANDed with the byte-swapped written value.  No events bit
\* is set by it, mask and levels keep their values, the processor is not notified.
C13_ClearEvents ==
    IsWriteAt(last, W_INT_CLEAR1) =>
        /\ IF AND(last.value, MACIO_INT_CLR) # {}
           THEN int_events = {}
           ELSE int_events = AND(last.pre.events, BYTESWAP_32(last.value))
        /\ int_events \subseteq last.pre.events
        /\ int_mask = last.pre.mask
        /\ int_levels = last.pre.levels
        /\ last.ints = 0
        /\ ~aborted

\* a CLEAR write without the clear-all bit that cleared one of two events
C13_Witness ==
    /\ IsWriteAt(last, W_INT_CLEAR1)
    /\ AND(last.value, MACIO_INT_CLR) = {}
    /\ int_events # {}
    /\ int_events # last.pre.events
    /\ int_events \subseteq last.pre.events

-----------------------------------------------------------------------------
(* Claims on the two threads (RaceSpec) *)

IntState == [mask |-> int_mask, levels |-> int_levels, events |-> int_events,
             aborted |-> aborted]

\* ack_int run alone from the interrupt state s
AckAlone(s, irq_id, st) ==
    IF s.aborted THEN s
    ELSE IF InLegacyMode(s.mask)
    THEN [s EXCEPT !.events = AckEvents(s.events, irq_id, s.mask),
                   !.levels = AckLevels(s.levels, irq_id, st)]
    ELSE [s EXCEPT !.aborted = TRUE]

\* the register write run alone from the interrupt state s
WriteAlone(s, offset, value) ==
    IF s.aborted THEN s
    ELSE LET w == IntWrite(offset, value, s.mask, s.events)
         IN  [s EXCEPT !.mask = w.mask, !.events = w.events]

\* the two outcomes of running the two operations one after the other
OneAfterTheOther ==
    {WriteAlone(AckAlone(race.pre, race.irq_id, race.irq_line_state),
                race.offset, race.value),
     AckAlone(WriteAlone(race.pre, race.offset, race.value),
              race.irq_id, race.irq_line_state)}

\* both threads have returned, or the process was ended
RaceOver == race.on /\ (aborted \/ (race.apc = "done" /\ race.bpc = "done"))

\* C14: when ack_int and a MASK or CLEAR write have run on two threads, the
\* interrupt state is the one reached by running them one after the other in one
\* of the two orders.
C14_Atomic == RaceOver => IntState \in OneAfterTheOther

-----------------------------------------------------------------------------
(* Claims on the delivery mode and on the fatal errors (Spec, ModeSpec) *)

\* C15 (checked from the first step of GuestSpec on, which selects the legacy
\* mode): no guest read or write and no acknowledge of a registered source ends
\* the process.
C15_GuestNeverAborts == last.op # "none" => ~aborted

C17_NativeAckAborts ==
    (last.op = "ack" /\ 31 \notin last.pre.mask) =>
        /\ aborted
        /\ int_mask = last.pre.mask
        /\ int_levels = last.pre.levels
        /\ int_events = last.pre.events
        /\ last.ints = 0

\* an acknowledge with the line asserted, in native mode with an event pending
C17_Witness ==
    /\ last.op = "ack" /\ last.irq_line_state = 1
    /\ 31 \notin last.pre.mask
    /\ aborted
    /\ int_events # {} /\ int_levels # {}
    /\ last.irq_id \cap int_levels = {}

\* C18: register_dev_int returns bit 18 for VIA_CUDA, bit 12 for SCSI1 and bit 19
\* for SWIM3: one bit each, no two the same, the same on every call, and no
\* controller state changes; every other source ends the process.
C18_RegisterSource ==
    last.op = "register" =>
        /\ last.src_id = "VIA_CUDA" => last.ret = {18}
        /\ last.src_id = "SCSI1" => last.ret = {12}
        /\ last.src_id = "SWIM3" => last.ret = {19}
        /\ last.src_id \in {"VIA_CUDA", "SCSI1", "SWIM3"} =>
              /\ ~aborted
              /\ Cardinality(last.ret) = 1
              /\ \A o \in {"VIA_CUDA", "SCSI1", "SWIM3"} \ {last.src_id} :
                    register_dev_int(o).ret # last.ret
        /\ last.src_id \notin {"VIA_CUDA", "SCSI1", "SWIM3"} => aborted
        /\ Pre = last.pre

\* SWIM3 registered while events are pending
C18_Witness ==
    /\ last.op = "register" /\ last.src_id = "SWIM3"
    /\ last.ret = {19}
    /\ ~aborted
    /\ int_events # {}
    /\ Pre = last.pre

-----------------------------------------------------------------------------
(* Claims on the BARs (BarSpec) *)

\* the value of a BAR with its low 4 bits cleared
LowCleared(bar) == {i \in bar : i >= 4}

\* C19: after notify_bar_change(0) the base address is BAR 0 with its low 4 bits
\* cleared; one region of size 0x20000 at that base is registered when this
\* differs from the base address before, and none when it does not.
C19_BarWrite ==
    (last.op = "bar" /\ last.bar_num = 0) =>
        /\ base_addr = LowCleared(bars[0])
        /\ bars[0] = last.value
        /\ IF LowCleared(bars[0]) # last.pre.base
           THEN mmio_regions = Append(last.pre.regions,
                                      [start |-> LowCleared(bars[0]),
                                       size |-> U32(131072)])
           ELSE mmio_regions = last.pre.regions

\* BAR 0 written again with a value of the same base address, low bits set:
\* nothing more is registered
C19_Witness ==
    /\ last.op = "bar" /\ last.bar_num = 0
    /\ last.value # base_addr
    /\ base_addr = last.pre.base
    /\ base_addr # {}
    /\ Len(mmio_regions) = 1
    /\ mmio_regions = last.pre.regions

\* C20: notify_bar_change with an index other than 0 changes neither the base
\* address nor the registered regions, whatever the BARs hold, and does not end
\* the process.
C20_OtherBarIgnored ==
    (last.op = "bar" /\ last.bar_num # 0) =>
        /\ base_addr = last.pre.base
        /\ mmio_regions = last.pre.regions
        /\ ~aborted

\* BAR 1 written with a value whose base is not the controller's base address
C20_Witness ==
    /\ last.op = "bar" /\ last.bar_num = 1
    /\ bars[1] = last.value
    /\ LowCleared(bars[1]) # base_addr
    /\ base_addr # {}
    /\ mmio_regions = last.pre.regions
    /\ Len(mmio_regions) = 1

-----------------------------------------------------------------------------
(* Claims on the acknowledge (Spec) *)

IsAck(l) == l.op = "ack" /\ 31 \in l.pre.mask

\* C21: a legacy-mode acknowledge calls ppc_ext_int once when events, re-masked,
\* is not 0 and not at all when it is 0, whatever the line level and whether or
\* not the acknowledged source is enabled.
C21_Notify ==
    IsAck(last) =>
        /\ int_events = (last.pre.events \cup last.irq_id) \cap last.pre.mask
        /\ int_events # {} => last.ints = 1
        /\ int_events = {} => last.ints = 0

\* the line of a masked-out source deasserted while the event of another source
\* is pending: one notification
C21_Witness ==
    /\ IsAck(last)
    /\ last.irq_line_state = 0
    /\ last.irq_id \cap int_mask = {}
    /\ int_events # {}
    /\ int_events = last.pre.events
    /\ last.ints = 1

\* C22: after a legacy-mode acknowledge the bit of the source in levels is the
\* line level given, enabled in mask or not; the other bits of levels and the
\* mask are as before.
C22_Levels ==
    IsAck(last) =>
        /\ int_levels = IF last.irq_line_state # 0
                        THEN last.pre.levels \cup last.irq_id
                        ELSE last.pre.levels \ last.irq_id
        /\ int_mask = last.pre.mask

\* the line of a masked-out source deasserted, the line of another source staying
\* asserted
C22_Witness ==
    /\ IsAck(last)
    /\ last.irq_line_state = 0
    /\ last.irq_id \cap int_mask = {}
    /\ last.irq_id \subseteq last.pre.levels
    /\ last.irq_id \cap int_levels = {}
    /\ int_levels # {}

\* the offsets of the interrupt registers of GrandCentral::read and write
IntOffsets == {W_INT_EVENTS1, W_INT_MASK1, W_INT_CLEAR1, W_INT_LEVELS1}

\* C23: a read of an interrupt register changes none of mask, levels and events;
\* neither does a write to LEVELS or EVENTS; levels changes in an acknowledge
\* only.
C23_ReadOnly ==
    /\ (last.op = "read" /\ last.offset \in IntOffsets) =>
          /\ int_mask = last.pre.mask
          /\ int_levels = last.pre.levels
          /\ int_events = last.pre.events
    /\ (IsWriteAt(last, W_INT_LEVELS1) \/ IsWriteAt(last, W_INT_EVENTS1)) =>
          /\ int_mask = last.pre.mask
          /\ int_levels = last.pre.levels
          /\ int_events = last.pre.events
    /\ last.op # "ack" => int_levels = last.pre.levels

\* a write to EVENTS of a value other than the pending events
C23_Witness ==
    /\ IsWriteAt(last, W_INT_EVENTS1)
    /\ int_events # {}
    /\ int_levels # {}
    /\ BYTESWAP_32(last.value) \cap int_events # int_events
    /\ int_events = last.pre.events

\* the bits of the sources
SrcBits == {12, 18, 19}

\* C25: a legacy-mode acknowledge of a source whose mask bit is clear leaves the
\* events bit of the source 0 and updates its levels bit; a MASK write changes no
\* events bit and does not notify the processor; the events bit of a source
\* goes from 0 to 1 in an acknowledge of this source only.
C25_MaskedEdgeLost ==
    [][ /\ (IsAck(last') /\ last'.irq_id \cap int_mask = {}) =>
              /\ last'.irq_id \cap int_events' = {}
              /\ (last'.irq_id \subseteq int_levels') <=> (last'.irq_line_state # 0)
        /\ IsWriteAt(last', W_INT_MASK1) =>
              /\ int_events' = int_events
              /\ int_levels' = int_levels
              /\ last'.ints = 0
        /\ \A b \in SrcBits :
              (b \notin int_events /\ b \in int_events') =>
                  /\ IsAck(last')
                  /\ last'.irq_id = {b}
                  /\ b \in int_mask ]_vars

\* a MASK write that enables a source whose line was asserted while it was
\* masked out: its levels bit is 1, its events bit 0
C25_Witness ==
    /\ IsWriteAt(last, W_INT_MASK1)
    /\ 31 \in last.pre.mask
    /\ \E b \in SrcBits : /\ b \notin last.pre.mask
                          /\ b \in int_mask
                          /\ b \in int_levels
                          /\ b \notin int_events
    /\ last.ints = 0

-----------------------------------------------------------------------------
(* Claims on the registered regions (BarSpec) *)

\* C24: no BAR write takes a region from the registered regions; after the base
\* address moved from a base that is not 0, the region of the old base is still
\* registered, beside the region of the new base.
C24_NeverRemoved ==
    [][ /\ Len(mmio_regions') >= Len(mmio_regions)
        /\ \A i \in 1..Len(mmio_regions) : mmio_regions'[i] = mmio_regions[i]
        /\ (base_addr # {} /\ base_addr' # base_addr) =>
              /\ \E i \in 1..Len(mmio_regions') :
                    mmio_regions'[i] = [start |-> base_addr, size |-> U32(131072)]
              /\ \E i \in 1..Len(mmio_regions') :
                    mmio_regions'[i] = [start |-> base_addr', size |-> U32(131072)] ]_vars

\* the base address moved from one base that is not 0 to another
C24_Witness ==
    /\ last.op = "bar" /\ last.bar_num = 0
    /\ last.pre.base # {}
    /\ base_addr # {}
    /\ base_addr # last.pre.base
    /\ Len(mmio_regions) = 2
    /\ mmio_regions[1].start = last.pre.base
    /\ mmio_regions[2].start = base_addr

=============================================================================
